---- MODULE Spec2Model ----
(***************************************************************************)
(* pdf_to_audio.py: conversion of PDF files to MP3 audio.                  *)
(*                                                                         *)
(* The model follows main(): the branch on the command line, the           *)
(* single-file path, the batch path (makedirs, optional cleanup, listing,  *)
(* multiprocessing.Pool.imap over process_pdf, summary), and pdf_to_audio  *)
(* itself in two steps: the conversion (PdfReader, the page loop, the      *)
(* concatenation), which touches only the call's own temporary directory,  *)
(* and the export, which writes the output folder that the workers share.  *)
(* File names are sequences of characters so that endswith, lower and      *)
(* os.path.splitext are computed as Python computes them.                  *)
(***************************************************************************)
EXTENDS Integers, Sequences, FiniteSets, TLC

\* ------------------------------------------------------------------ bounds
\* Largest number of entries of the input folder.
MaxFiles == 2
\* Largest number of pages of a PDF.
MaxPages == 2
\* Largest value given to --jobs.
MaxJobs == 2

\* ----------------------------------------------------------------- strings
\* A string is a sequence of one-character strings; None is a sequence that
\* is no string.
None == <<"None">>

SepChar == "/"
ExtSep == "."

\* str.lower() on the characters the model uses.
LowerChar(c) ==
    CASE c = "P" -> "p"
      [] c = "D" -> "d"
      [] c = "F" -> "f"
      [] OTHER -> c

Lower(s) == [k \in 1..Len(s) |-> LowerChar(s[k])]

\* str.endswith(suffix)
EndsWith(s, suffix) ==
    /\ Len(s) >= Len(suffix)
    /\ SubSeq(s, Len(s) - Len(suffix) + 1, Len(s)) = suffix

\* str.rfind(c), 0-based as in Python, -1 when c does not occur.
RFind(s, c) ==
    LET hits == {k \in 1..Len(s) : s[k] = c}
    IN  IF hits = {} THEN -1
        ELSE (CHOOSE k \in hits : \A m \in hits : m <= k) - 1

\* os.path.basename(p) = p[p.rfind('/') + 1:]
Basename(p) == SubSeq(p, RFind(p, SepChar) + 2, Len(p))

\* os.path.splitext(p) (genericpath._splitext): the extension starts at the
\* last dot of the last path component, unless only dots precede that dot in
\* the component (leading dots are skipped), in which case there is none.
\* Returns the root part, p[:dotIndex] or p.
SplitextRoot(p) ==
    LET sepIndex == RFind(p, SepChar)
        dotIndex == RFind(p, ExtSep)
        \* 0-based indices filenameIndex with sepIndex < filenameIndex < dotIndex
        \* holding a character other than the dot
        nondot == {f \in (sepIndex + 1)..(dotIndex - 1) : p[f + 1] # ExtSep}
    IN  IF dotIndex > sepIndex /\ nondot # {}
        THEN SubSeq(p, 1, dotIndex)
        ELSE p

\* os.path.join(folder, name) for a relative name
Join(folder, name) == folder \o <<SepChar>> \o name

DotPdf == <<".", "p", "d", "f">>
DotMp3 == <<".", "m", "p", "3">>

\* args.output or "output" (--output is not given in the model)
OutputFolder == <<"o">>
\* args.input or "input"
InputFolder == <<"i">>

\* f"{os.path.splitext(filename)[0]}.mp3" joined to the output folder
OutputPathOf(filename) == Join(OutputFolder, SplitextRoot(filename) \o DotMp3)

\* ------------------------------------------------------------------ inputs
\* Names an entry of the input folder may have.
InputNames ==
    { <<"a">> \o DotPdf,
      DotPdf,
      DotPdf \o DotPdf,
      <<"a", ".", "P", "D", "F">> }

\* Values of --file (besides None): the empty string, a PDF, a PDF in a
\* folder with upper-case suffix, and a file that is not a PDF.
FileArgs ==
    { <<>>,
      <<"a">> \o DotPdf,
      <<"d", "/", "b", ".", "P", "D", "F">>,
      <<"a", ".", "t", "x", "t">> }

\* Entries the output folder may hold before the run: two regular files
\* (one of them the destination of a.pdf) and one subdirectory.
OldMp3 == Join(OutputFolder, <<"a">> \o DotMp3)
OldTxt == Join(OutputFolder, <<"k">>)
SubDir == Join(OutputFolder, <<"s">>)
\* An entry records its kind, the call that wrote it (0: it was there before
\* the run) and whether the write was completed.
OldFile == [kind |-> "file", by |-> 0, complete |-> TRUE]
Dir == [kind |-> "dir", by |-> 0, complete |-> TRUE]

\* Page texts: TRUE when text.strip() is non-empty.
PageSeqs == UNION {[1..n -> BOOLEAN] : n \in 0..MaxPages}

\* ------------------------------------------------------------------- state
VARIABLES
    args,          \* the parsed command line
    fileIsFile,    \* os.path.isfile(args.file)
    inputDir,      \* names of the entries of the input folder
    outExists,     \* the output folder exists
    outDir,        \* path -> entry, the entries of the output folder
    pc,            \* position of main()
    exitStatus,    \* the process exit status, -1 until the process exits
    logged,        \* kinds of log records written by the main process
    pdf_files,     \* main(): the filtered listing
    process_args,  \* main(): the work items <<input, output, language>>
    calls,         \* index -> frame of the pdf_to_audio call for that item
    results,       \* main(): the list built from pool.imap
    successful,    \* main(): sum(results)
    tmpFiles       \* the fragment files that exist, [dir, page, by]

vars == <<args, fileIsFile, inputDir, outExists, outDir, pc, exitStatus, logged,
          pdf_files, process_args, calls, results, successful, tmpFiles>>

mainVars == <<pc, exitStatus, logged, pdf_files, process_args, results, successful>>
envVars == <<args, fileIsFile, inputDir>>

\* args.language, left at its default
Language == "en"

\* A frame of pdf_to_audio that has not been called yet.
Queued == [st |-> "queued", attempts |-> 0]

\* bool(args.file): None and the empty string are false
Truthy(s) == s # None /\ s # <<>>

Range(f) == {f[x] : x \in DOMAIN f}

\* All orders in which os.listdir may return the set S.
Orders(S) ==
    {f \in [1..Cardinality(S) -> S] : \A a, b \in DOMAIN f : a # b => f[a] # f[b]}

\* ------------------------------------------------------------------- Init
Init ==
    /\ args \in [list_languages : BOOLEAN,
                 file : {None} \cup FileArgs,
                 clean : BOOLEAN,
                 jobs : 0..MaxJobs]
    /\ fileIsFile \in BOOLEAN
    \* os.path.isfile is false for no path and for the empty path
    /\ (fileIsFile => Truthy(args.file))
    /\ inputDir \in {S \in SUBSET InputNames : Cardinality(S) <= MaxFiles}
    \* the single-file branch never reads the input folder
    /\ (Truthy(args.file) => inputDir = {})
    /\ outExists \in BOOLEAN
    /\ \E S \in {{}, {OldMp3, OldTxt, SubDir}} :
          /\ (~outExists => S = {})
          /\ outDir = [p \in S |-> IF p = SubDir THEN Dir ELSE OldFile]
    /\ pc = "start"
    /\ exitStatus = -1
    /\ logged = {}
    /\ pdf_files = <<>>
    /\ process_args = <<>>
    /\ calls = <<>>
    /\ results = <<>>
    /\ successful = 0
    /\ tmpFiles = {}

\* ------------------------------------------------------------ pdf_to_audio
\* States of a frame: "queued" (the work item waits in the pool's task
\* queue), "called", "export" (the fragments are concatenated, the export
\* is next), "returned", and "raised" (an exception left pdf_to_audio).
Active(c) == c.st \in {"called", "export"}

\* The frame after `return value`, with the log record written on the way.
Returned(c, value, record) ==
    [st |-> "returned", ret |-> value, log |-> record, attempts |-> c.attempts,
     input_file |-> c.input_file, output_file |-> c.output_file]

\* Except without the try: the exception leaves pdf_to_audio.
ExceptPropagates(c) ==
    [st |-> "raised", attempts |-> c.attempts,
     input_file |-> c.input_file, output_file |-> c.output_file]

\* except Exception: logger.error(...); return False
Except(c) == Returned(c, FALSE, "error")

\* Leaving `with tempfile.TemporaryDirectory()`: the directory and the
\* fragment files in it are removed.
RemoveTemp(c) == {f \in tmpFiles : f.dir # c.temp_dir}

\* os.path.join(temp_dir, f"page_{i+1}.mp3") for the 0-based page index idx
TempAudioFile(temp_dir, idx) == <<temp_dir, idx + 1>>

\* The page loop without the test of text.strip(): every page is synthesized.
RECURSIVE PageLoopNoSkip(_, _, _, _)
PageLoopNoSkip(pages, idx, temp_dir, files) ==
    IF idx >= Len(pages) THEN files
    ELSE PageLoopNoSkip(pages, idx + 1, temp_dir,
                        Append(files, TempAudioFile(temp_dir, idx)))

\* for i, page in enumerate(reader.pages): if text.strip(): ... append
\* The list temp_audio_files after the iterations idx, idx + 1, ... of the
\* loop, started with the list `files`.
RECURSIVE PageLoop(_, _, _, _)
PageLoop(pages, idx, temp_dir, files) ==
    IF idx >= Len(pages) THEN files
    ELSE IF pages[idx + 1]
         THEN PageLoop(pages, idx + 1, temp_dir,
                       Append(files, TempAudioFile(temp_dir, idx)))
         ELSE PageLoop(pages, idx + 1, temp_dir, files)

\* tts.save(temp_audio_file) for each path of `files`, by call i: the
\* fragment files in the temporary directory.
Saved(files, i) == {[dir |-> f[1], page |-> f[2], by |-> i] : f \in Range(files)}

\* AudioSegment.from_mp3(temp_file): the speech stored in the fragment file,
\* <<item, page>> for the text of that page of that item's PDF.
FromMp3(path, fs) ==
    LET f == CHOOSE f \in fs : f.dir = path[1] /\ f.page = path[2]
    IN  <<f.by, f.page>>

\* combined = AudioSegment.empty(); for temp_file in temp_audio_files:
\*     combined += AudioSegment.from_mp3(temp_file)
Concatenate(temp_audio_files, fs) ==
    [k \in 1..Len(temp_audio_files) |-> FromMp3(temp_audio_files[k], fs)]

\* The test left out: the export is reached with no fragment.
HasFragmentsAlways(temp_audio_files) == TRUE

\* if temp_audio_files:
HasFragments(temp_audio_files) == temp_audio_files # <<>>

\* tempfile.TemporaryDirectory(): a directory no other call holds; the model
\* names it after the call.
TemporaryDirectory(i) == i

\* pdf_to_audio up to the export: PdfReader, the page loop, the test
\* `if temp_audio_files:` and the concatenation.  Each external call may
\* raise; the text of the pages is read here.
Convert(i) ==
    LET c == calls[i]
        temp_dir == TemporaryDirectory(i)
    IN
    /\ c.st = "called"
    /\ \/ \* PdfReader, extract_text, gTTS, tts.save or from_mp3 raises
          /\ calls' = [calls EXCEPT ![i] = Except(c)]
          /\ UNCHANGED tmpFiles
       \/ \E pages \in PageSeqs :
          LET temp_audio_files == PageLoop(pages, 0, temp_dir, <<>>)
              fs == tmpFiles \cup Saved(temp_audio_files, i)
          IN
          IF HasFragments(temp_audio_files)
          THEN /\ calls' = [calls EXCEPT ![i] =
                     [st |-> "export", attempts |-> c.attempts,
                      input_file |-> c.input_file, output_file |-> c.output_file,
                      pages |-> pages, temp_dir |-> temp_dir,
                      temp_audio_files |-> temp_audio_files,
                      combined |-> Concatenate(temp_audio_files, fs)]]
               /\ tmpFiles' = fs
          ELSE \* logger.warning("No text content found"); return False
               /\ calls' = [calls EXCEPT ![i] = Returned(c, FALSE, "warning")]
               /\ UNCHANGED tmpFiles
    /\ UNCHANGED <<envVars, mainVars, outExists, outDir>>

\* The output folder after a write of `entry` to `path`.
WriteFile(path, entry) ==
    [p \in DOMAIN outDir \cup {path} |-> IF p = path THEN entry ELSE outDir[p]]

\* combined.export(output_file, format="mp3"); return True
Export(i) ==
    LET c == calls[i] IN
    /\ c.st = "export"
    /\ tmpFiles' = RemoveTemp(c)
    /\ \/ /\ outDir' = WriteFile(c.output_file,
                [kind |-> "file", by |-> i, complete |-> TRUE])
          /\ calls' = [calls EXCEPT ![i] = Returned(c, TRUE, "debug")]
       \/ \* the encoder fails after the destination was opened for writing
          /\ outDir' = WriteFile(c.output_file,
                [kind |-> "file", by |-> i, complete |-> FALSE])
          /\ calls' = [calls EXCEPT ![i] = Except(c)]
       \/ \* export raises before it writes anything
          /\ UNCHANGED outDir
          /\ calls' = [calls EXCEPT ![i] = Except(c)]
    /\ UNCHANGED <<envVars, mainVars, outExists>>

\* def process_pdf(args): input_file, output_file, language = args;
\*     return pdf_to_audio(input_file, output_file, language)
\* The frame of the call a worker makes for work item `item`.
ProcessPdf(c, item) ==
    [st |-> "called", attempts |-> c.attempts + 1,
     input_file |-> item[1], output_file |-> item[2]]

\* -------------------------------------------------------------------- main
\* sys.exit(status)
Exit(status) ==
    /\ pc' = "exited"
    /\ exitStatus' = status

\* if args.list_languages: list_languages(); sys.exit(0)
ListLanguages ==
    /\ pc = "start"
    /\ args.list_languages
    /\ Exit(0)
    /\ \/ logged' = logged \cup {"languages"}
       \/ logged' = logged \cup {"languages_error"}    \* tts_langs() raises
    /\ UNCHANGED <<envVars, outExists, outDir, pdf_files, process_args, calls,
                   results, successful, tmpFiles>>

\* The two checks of the single-file branch.
SingleFileValid ==
    /\ fileIsFile
    /\ EndsWith(Lower(args.file), DotPdf)

\* if args.file: ... sys.exit(1) for a missing file or a file that is no PDF
SingleReject ==
    /\ pc = "start"
    /\ ~args.list_languages
    /\ Truthy(args.file)
    /\ ~SingleFileValid
    /\ Exit(1)
    /\ logged' = logged \cup {"input_error"}
    /\ UNCHANGED <<envVars, outExists, outDir, pdf_files, process_args, calls,
                   results, successful, tmpFiles>>

\* output_folder = args.output or "output"; os.makedirs(...);
\* output_file = ...; the call pdf_to_audio(args.file, output_file, language)
SingleStart ==
    /\ pc = "start"
    /\ ~args.list_languages
    /\ Truthy(args.file)
    /\ SingleFileValid
    /\ outExists' = TRUE
    /\ calls' = <<ProcessPdf(Queued,
                     <<args.file, OutputPathOf(Basename(args.file)), Language>>)>>
    /\ pc' = "single"
    /\ UNCHANGED <<envVars, outDir, exitStatus, logged, pdf_files, process_args,
                   results, successful, tmpFiles>>

\* The single-file branch with an exit status that tells failure.
SingleFinishStatus ==
    /\ pc = "single"
    /\ calls[1].st = "returned"
    /\ logged' = logged \cup {IF calls[1].ret THEN "complete" ELSE "failed"}
    /\ Exit(IF calls[1].ret THEN 0 ELSE 1)
    /\ UNCHANGED <<envVars, outExists, outDir, pdf_files, process_args, calls,
                   results, successful, tmpFiles>>

\* if pdf_to_audio(...): logger.info(...) else: logger.error(...); sys.exit(0)
SingleFinish ==
    /\ pc = "single"
    /\ calls[1].st = "returned"
    /\ logged' = logged \cup {IF calls[1].ret THEN "complete" ELSE "failed"}
    /\ Exit(0)
    /\ UNCHANGED <<envVars, outExists, outDir, pdf_files, process_args, calls,
                   results, successful, tmpFiles>>

\* os.makedirs(input_folder, exist_ok=True); os.makedirs(output_folder, ...)
BatchStart ==
    /\ pc = "start"
    /\ ~args.list_languages
    /\ ~Truthy(args.file)
    /\ outExists' = TRUE
    /\ pc' = IF args.clean THEN "clean" ELSE "listdir"
    /\ UNCHANGED <<envVars, outDir, exitStatus, logged, pdf_files, process_args,
                   calls, results, successful, tmpFiles>>

\* The entries of outDir that are regular files.
RegularFiles == {p \in DOMAIN outDir : outDir[p].kind = "file"}

\* The loop without the os.path.isfile test: subdirectories go too.
UnlinkedNoIsfile(files, failAt) ==
    LET last == IF failAt = 0 THEN Len(files) ELSE failAt - 1
    IN  {files[k] : k \in 1..last}

\* The loop of cleanup_output_folder over the listing `files`, in which the
\* unlink of entry number `failAt` raises (0: no unlink raises): the paths
\* it has unlinked.
Unlinked(files, failAt) ==
    LET last == IF failAt = 0 THEN Len(files) ELSE failAt - 1
    IN  {files[k] : k \in {m \in 1..last : files[m] \in RegularFiles}}

\* cleanup_output_folder(output_folder)
CleanupOutputFolder ==
    /\ pc = "clean"
    /\ pc' = "listdir"
    /\ \/ \* os.listdir raises
          /\ logged' = logged \cup {"cleanup_error"}
          /\ UNCHANGED outDir
       \/ \E files \in Orders(DOMAIN outDir) :
          \E failAt \in 0..Len(files) :
            /\ failAt > 0 => files[failAt] \in RegularFiles
            /\ outDir' = [p \in DOMAIN outDir \ Unlinked(files, failAt) |-> outDir[p]]
            /\ logged' = IF failAt > 0 THEN logged \cup {"cleanup_error"} ELSE logged
    /\ UNCHANGED <<envVars, outExists, exitStatus, pdf_files, process_args, calls,
                   results, successful, tmpFiles>>

\* [f for f in listing if f.endswith('.pdf')]
PdfFiles(listing) == SelectSeq(listing, LAMBDA f : EndsWith(f, DotPdf))

\* The work items built from pdf_files.
ProcessArgs(files) ==
    [k \in 1..Len(files) |->
        <<Join(InputFolder, files[k]), OutputPathOf(files[k]), Language>>]

\* pdf_files = [...]; if not pdf_files: sys.exit(1); process_args = [...]
ListPdfFiles ==
    /\ pc = "listdir"
    /\ \E listing \in Orders(inputDir) :
         /\ pdf_files' = PdfFiles(listing)
         /\ IF pdf_files' = <<>>
            THEN /\ Exit(1)
                 /\ logged' = logged \cup {"no_pdf"}
                 /\ UNCHANGED <<process_args, calls>>
            ELSE /\ process_args' = ProcessArgs(pdf_files')
                 /\ calls' = [k \in 1..Len(pdf_files') |-> Queued]
                 /\ pc' = "pool"
                 /\ UNCHANGED <<exitStatus, logged>>
    /\ UNCHANGED <<envVars, outExists, outDir, results, successful, tmpFiles>>

\* with multiprocessing.Pool(args.jobs) as pool: Pool raises ValueError for
\* a number of processes below 1, which nothing catches: the interpreter
\* prints the traceback and exits with status 1.
PoolStart ==
    /\ pc = "pool"
    /\ IF args.jobs < 1
       THEN Exit(1)
       ELSE pc' = "imap" /\ UNCHANGED exitStatus
    /\ UNCHANGED <<envVars, outExists, outDir, logged, pdf_files, process_args,
                   calls, results, successful, tmpFiles>>

\* A pool that hands a failed work item to a worker a second time.
DispatchRetry(i) ==
    /\ pc = "imap"
    /\ \/ calls[i].st = "queued"
       \/ /\ calls[i].st = "returned"
          /\ ~calls[i].ret
          /\ calls[i].attempts < 2
          /\ Len(results) < i
    /\ \A j \in 1..(i - 1) : calls[j].st # "queued"
    /\ Cardinality({j \in DOMAIN calls : Active(calls[j])}) < args.jobs
    /\ calls' = [calls EXCEPT ![i] = ProcessPdf(@, process_args[i])]
    /\ UNCHANGED <<envVars, mainVars, outExists, outDir, tmpFiles>>

\* A pool worker takes the next work item of the task queue: items leave the
\* queue in the order of process_args, one per idle worker.
Dispatch(i) ==
    /\ pc = "imap"
    /\ calls[i].st = "queued"
    /\ \A j \in 1..(i - 1) : calls[j].st # "queued"
    /\ Cardinality({j \in DOMAIN calls : Active(calls[j])}) < args.jobs
    /\ calls' = [calls EXCEPT ![i] = ProcessPdf(@, process_args[i])]
    /\ UNCHANGED <<envVars, mainVars, outExists, outDir, tmpFiles>>

\* The results taken from the last work item to the first.
NextResultReversed ==
    IF Len(results) < Len(process_args)
    THEN Len(process_args) - Len(results)
    ELSE Len(results) + 1

\* The index of the work item whose result pool.imap yields next.
NextResult == Len(results) + 1

\* One iteration of list(tqdm(pool.imap(process_pdf, process_args))): imap
\* yields the results in the order of process_args.
Collect ==
    /\ pc = "imap"
    /\ NextResult <= Len(process_args)
    /\ calls[NextResult].st = "returned"
    /\ results' = Append(results, calls[NextResult].ret)
    /\ UNCHANGED <<envVars, outExists, outDir, pc, exitStatus, logged, pdf_files,
                   process_args, calls, successful, tmpFiles>>

\* len(results) in the place of sum(results)
SumCountsAll(rs) == Len(rs)

\* sum(results)
Sum(rs) == Cardinality({k \in 1..Len(rs) : rs[k]})

\* successful = sum(results); logger.info(...); main returns
Summary ==
    /\ pc = "imap"
    /\ Len(results) = Len(process_args)
    /\ successful' = Sum(results)
    /\ logged' = logged \cup {"summary"}
    /\ Exit(0)
    /\ UNCHANGED <<envVars, outExists, outDir, pdf_files, process_args, calls,
                   results, tmpFiles>>

\* ------------------------------------------------------------------- Next
Next ==
    \/ ListLanguages
    \/ SingleReject
    \/ SingleStart
    \/ SingleFinish
    \/ BatchStart
    \/ CleanupOutputFolder
    \/ ListPdfFiles
    \/ PoolStart
    \/ Collect
    \/ Summary
    \/ \E i \in DOMAIN calls :
         \/ Dispatch(i)
         \/ Convert(i)
         \/ Export(i)

Spec == Init /\ [][Next]_vars

\* The batch branch alone: no --file, no --list-languages, no --clean, an
\* output folder without entries.
BatchInit ==
    /\ Init
    /\ ~args.list_languages
    /\ args.file = None
    /\ ~args.clean
    /\ outDir = <<>>

BatchNext ==
    \/ BatchStart
    \/ ListPdfFiles
    \/ PoolStart
    \/ Collect
    \/ Summary
    \/ \E i \in DOMAIN calls :
         \/ Dispatch(i)
         \/ Convert(i)
         \/ Export(i)

\* Every external call returns and the operating system schedules every
\* process: a step of the batch that can be taken is taken.
FairSpec == BatchInit /\ [][BatchNext]_vars /\ WF_vars(BatchNext)

\* ------------------------------------------------------------------ claims
\* The paths of the output folder written by call i.
WrittenBy(i, dir) == {p \in DOMAIN dir : dir[p].by = i}

\* The indices of the pages with text.
NonEmpty(pages) == {k \in 1..Len(pages) : pages[k]}

\* `audio` holds one fragment of item i per page of `pages` with text, no
\* other fragment, in ascending page order.
IsFragmentsOf(audio, i, pages) ==
    /\ Len(audio) = Cardinality(NonEmpty(pages))
    /\ \A k \in 1..Len(audio) : audio[k][1] = i /\ audio[k][2] \in NonEmpty(pages)
    /\ \A k, m \in 1..Len(audio) : k < m => audio[k][2] < audio[m][2]

\* C1: when the processing of a PDF has raised no error up to the export,
\* the audio that is concatenated for the output is exactly one fragment per
\* page with non-empty text, in ascending page order, none duplicated.
C1_FragmentsInPageOrder ==
    \A i \in DOMAIN calls :
        calls[i].st = "export" =>
            IsFragmentsOf(calls[i].combined, i, calls[i].pages)

\* A PDF of two pages, both with text, has its two fragments concatenated.
C1_Witness ==
    \E i \in DOMAIN calls :
        /\ calls[i].st = "export"
        /\ calls[i].pages = <<TRUE, TRUE>>
        /\ Len(calls[i].combined) = 2

\* C3: pdf_to_audio never raises: a call that ends, ends with a boolean
\* result, which is False whenever an exception was caught (the error
\* record is logged), and a call that ends before its export step ends with
\* False and has written no file of the output folder.
C3_NeverRaises ==
    [][\A i \in DOMAIN calls :
          /\ calls'[i].st # "raised"
          /\ (calls[i].st = "called" /\ calls'[i].st \notin {"called", "export"}) =>
                /\ calls'[i].st = "returned"
                /\ calls'[i].ret = FALSE
                /\ WrittenBy(i, outDir') = {}
          /\ (calls[i].st = "export" /\ calls'[i].st # "export") =>
                /\ calls'[i].st = "returned"
                /\ calls'[i].ret \in BOOLEAN
          /\ (calls'[i].st = "returned" /\ calls'[i].log = "error") =>
                ~calls'[i].ret]_vars

\* A call has ended with the error record and has written nothing.
C3_Witness ==
    \E i \in DOMAIN calls :
        /\ calls[i].st = "returned"
        /\ calls[i].log = "error"
        /\ ~calls[i].ret
        /\ WrittenBy(i, outDir) = {}

\* C4: pdf_to_audio returns True only from the export of at least one
\* fragment; the export step is reached only by a PDF that has a page with
\* text, so a PDF whose pages are all empty (or that has no page) returns
\* False, and its call writes no destination file.
C4_NoTextFails ==
    [][\A i \in DOMAIN calls :
          /\ (calls'[i].st = "export") =>
                /\ calls'[i].temp_audio_files # <<>>
                /\ NonEmpty(calls'[i].pages) # {}
          /\ (calls[i].st # "returned" /\ calls'[i].st = "returned" /\ calls'[i].ret) =>
                calls[i].st = "export"
          /\ (calls'[i].st = "returned" /\ calls'[i].log = "warning") =>
                /\ ~calls'[i].ret
                /\ WrittenBy(i, outDir') = {}
          /\ WrittenBy(i, outDir') \ WrittenBy(i, outDir) # {} => calls[i].st = "export"]_vars

\* A call has found no text: it returned False and wrote nothing.
C4_Witness ==
    \E i \in DOMAIN calls :
        /\ calls[i].st = "returned"
        /\ calls[i].log = "warning"
        /\ ~calls[i].ret
        /\ calls[i].output_file \notin DOMAIN outDir

\* C5: the k-th entry of results is the result of the call made for the
\* k-th work item, and when the summary is written there is one entry per
\* work item.
C5_ResultsInInputOrder ==
    /\ \A k \in 1..Len(results) :
          /\ k \in DOMAIN calls
          /\ calls[k].st = "returned"
          /\ calls[k].input_file = process_args[k][1]
          /\ calls[k].output_file = process_args[k][2]
          /\ results[k] = calls[k].ret
    /\ "summary" \in logged => Len(results) = Len(process_args)

\* The summary is written after two work items with different results.
C5_Witness ==
    /\ "summary" \in logged
    /\ Len(results) = 2
    /\ results = <<FALSE, TRUE>>
    /\ args.jobs = 2

\* The work items whose conversion returned True.
Converted == {i \in DOMAIN calls : calls[i].st = "returned" /\ calls[i].ret}

\* C2 as stated: when the summary is written, the success count is the
\* number of converted files and a destination file is present exactly for
\* the converted files.
C2_Original ==
    "summary" \in logged =>
        /\ successful = Cardinality(Converted)
        /\ \A i \in DOMAIN process_args :
              i \in Converted <=> process_args[i][2] \in DOMAIN outDir

\* C2, amended: when the summary is written, the success count is the number
\* of converted files and a destination file is present for every converted
\* file; the destination of a file that was not converted is absent unless
\* it was in the output folder before the run, or was left incomplete by the
\* file's own failed export, or was written for another work item that has
\* the same destination.
C2_BatchTally ==
    "summary" \in logged =>
        /\ successful = Cardinality(Converted)
        /\ \A i \in DOMAIN process_args :
              LET dest == process_args[i][2] IN
              /\ i \in Converted => dest \in DOMAIN outDir /\ outDir[dest].kind = "file"
              /\ (i \notin Converted /\ dest \in DOMAIN outDir) =>
                    \/ outDir[dest].by = 0
                    \/ outDir[dest].by = i /\ ~outDir[dest].complete
                    \/ /\ outDir[dest].by \in DOMAIN process_args \ {i}
                       /\ process_args[outDir[dest].by][2] = dest

\* A batch of two files, one converted and one not: the count is 1, the
\* destination of the first is present and that of the second is absent.
C2_Witness ==
    /\ "summary" \in logged
    /\ Len(process_args) = 2
    /\ Converted = {1}
    /\ successful = 1
    /\ process_args[1][2] \in DOMAIN outDir
    /\ process_args[2][2] \notin DOMAIN outDir

C6_Safety ==
    /\ \A i \in DOMAIN calls : calls[i].attempts <= 1 /\ calls[i].st # "raised"
    /\ "summary" \in logged =>
          /\ \A i \in DOMAIN calls :
                calls[i].attempts = 1 /\ calls[i].st = "returned" /\ calls[i].ret \in BOOLEAN
          /\ successful = Cardinality(Converted)
          /\ successful = Len(process_args) - Cardinality(DOMAIN calls \ Converted)

C7_Original ==
    /\ \A i, j \in DOMAIN process_args :
          i # j => process_args[i][2] # process_args[j][2]
    /\ \A i, j \in DOMAIN calls :
          (i # j /\ calls[i].st = "export" /\ calls[j].st = "export") =>
              calls[i].temp_dir # calls[j].temp_dir

\* The regular files that were in the output folder before the run.
OldRegular(dir) == {p \in DOMAIN dir : dir[p].kind = "file" /\ dir[p].by = 0}

\* pdf_to_audio has been called.
ConversionStarted == \E i \in DOMAIN calls : calls[i].st # "queued"

\* No step removes or changes a subdirectory of the output folder.
DirsKept ==
    \A p \in DOMAIN outDir :
        outDir[p].kind = "dir" => p \in DOMAIN outDir' /\ outDir'[p] = outDir[p]

\* main() takes the batch branch.
BatchMode == ~args.list_languages /\ ~Truthy(args.file)

C9_Original ==
    (args.file # None /\ ~args.list_languages /\ ~SingleFileValid) =>
        /\ ~ConversionStarted
        /\ pc = "exited" => exitStatus = 1

\* The input folder holds a file that passes the filter of the batch branch.
FoundPdf == \E f \in inputDir : EndsWith(f, DotPdf)

====
